---------------------------- MODULE Spec2Model ----------------------------
(***************************************************************************)
(* Sales dashboard (App.tsx + services/dataService): the fetch lifecycle   *)
(* of the in-memory dataset, the filter / grouping / aggregation pipeline  *)
(* derived from it, and the ingestion of a response body (line splitter,   *)
(* column mapper, field parsers, record builder).                          *)
(*                                                                         *)
(* Representation                                                          *)
(*  - a text whose characters matter (customer names, amount cells) is a   *)
(*    sequence of one-character strings; other texts are TLA+ strings;     *)
(*  - an instant is an integer count of ticks since the epoch (the code's  *)
(*    milliseconds); a day has TicksPerDay ticks;                          *)
(*  - an ISO-8601 text (Date.toISOString) is the record                    *)
(*    [day |-> "YYYY-MM-DD" part, tod |-> time-of-day part], both UTC;     *)
(*  - a date-input text "YYYY-MM-DD" is <<its day number>>, '' is <<>>;     *)
(*  - a JavaScript number is an integer counting 1/Scale units, or NaN;    *)
(*  - what Date.parse makes of a text that is not in the ISO format is     *)
(*    left to the engine: the engine is an input of parseDate;             *)
(*  - several setState calls of one handler run are applied together       *)
(*    (React batches them), so a handler run is one action.                *)
(***************************************************************************)
EXTENDS Integers, Sequences, FiniteSets, TLC

VARIABLES
    orders,         \* useState<Order[]>            App.tsx:13
    loadingState,   \* useState<LoadingState>       App.tsx:14
    errorMsg,       \* useState<string>             App.tsx:15
    isUsingMock,    \* useState(false)              App.tsx:16
    startDate,      \* filter start, '' or a day    App.tsx:20
    endDate,        \* filter end, '' or a day      App.tsx:21
    activeFilter,   \* quick-filter id              App.tsx:22
    groupedOrders,  \* useMemo result               App.tsx:130
    mounted,        \* "no" | "yes" | "gone": the effect of App.tsx:99 ran / was cleaned up
    timerOn,        \* the setInterval handle is live          App.tsx:107,113
    inflight,       \* ids of loadData calls suspended at the await of App.tsx:74
    nextFetch,      \* id the next loadData call gets
    source,         \* history: the source (initial, fetch f, mock) the last setOrders took its rows from, and the rows it delivered
    lastDone,       \* history: the last step of loadData / loadMockData / the cleanup: the loadData call it belongs to (by), what it was given, the dataset held before it and the fetch that dataset came from (over, 0 for none)
    tz,             \* local time-zone offset in ticks (local = UTC + tz)
    now,            \* new Date(): the current instant
    sheet           \* history: the last response body fetchSalesData read, with its fields, headers, cells and orders

vars == <<orders, loadingState, errorMsg, isUsingMock, startDate, endDate,
          activeFilter, groupedOrders, mounted, timerOn, inflight, nextFetch,
          source, lastDone, tz, now, sheet>>

-----------------------------------------------------------------------------
(* Bounds of the model *)

\* ticks in a day (86,400,000 ms in the code)
TicksPerDay == 4
\* days in a month of the model's calendar (28..31 in the real one)
DaysPerMonth == 2
\* most data rows of a sheet drawn from RowPool
MaxRows == 3
\* most data rows of a sheet of the one-customer-per-row family
MaxTopRows == 6
\* most loadData calls of one run
MaxFetches == 3
\* fractional decimal digits a number keeps
FracDigits == 2
\* days getMockData generates (30 in the code)
MockDays == 1
\* most orders getMockData generates per day (5 in the code)
MockMaxPerDay == 1
\* months in a year of the model's calendar (12 in the real one)
MonthsPerYear == 2
\* most data lines of a response body drawn from LinePool
MaxSheetRows == 2

-----------------------------------------------------------------------------
(* Texts *)

Range(s) == {s[i] : i \in DOMAIN s}

Digits == {"0", "1", "2", "3", "4", "5", "6", "7", "8", "9"}

DigitVal(c) ==
    CASE c = "0" -> 0 [] c = "1" -> 1 [] c = "2" -> 2 [] c = "3" -> 3
      [] c = "4" -> 4 [] c = "5" -> 5 [] c = "6" -> 6 [] c = "7" -> 7
      [] c = "8" -> 8 [] c = "9" -> 9

DigitChar(n) ==
    CASE n = 0 -> "0" [] n = 1 -> "1" [] n = 2 -> "2" [] n = 3 -> "3"
      [] n = 4 -> "4" [] n = 5 -> "5" [] n = 6 -> "6" [] n = 7 -> "7"
      [] n = 8 -> "8" [] n = 9 -> "9"

UpperLetters == <<"A", "B", "C", "D", "E", "F", "G", "H", "I", "J", "K", "L", "M",
                  "N", "O", "P", "Q", "R", "S", "T", "U", "V", "W", "X", "Y", "Z",
                  "DD">>

LowerLetters == <<"a", "b", "c", "d", "e", "f", "g", "h", "i", "j", "k", "l", "m",
                  "n", "o", "p", "q", "r", "s", "t", "u", "v", "w", "x", "y", "z",
                  "dd">>

\* String.prototype.toLowerCase, one character
LowerChar(c) ==
    IF \E i \in DOMAIN UpperLetters : UpperLetters[i] = c
    THEN LowerLetters[CHOOSE i \in DOMAIN UpperLetters : UpperLetters[i] = c]
    ELSE c

toLowerCase(s) == [i \in DOMAIN s |-> LowerChar(s[i])]

WhiteSpace == {" ", "\t"}

RECURSIVE TrimStart(_)
TrimStart(s) ==
    IF s # <<>> /\ Head(s) \in WhiteSpace THEN TrimStart(Tail(s)) ELSE s

RECURSIVE TrimEnd(_)
TrimEnd(s) ==
    IF s # <<>> /\ s[Len(s)] \in WhiteSpace
    THEN TrimEnd(SubSeq(s, 1, Len(s) - 1))
    ELSE s

\* String.prototype.trim
trim(s) == TrimEnd(TrimStart(s))

-----------------------------------------------------------------------------
(* JavaScript numbers: NaN, or an integer count of 1/Scale units *)

RECURSIVE Pow10(_)
Pow10(n) == IF n = 0 THEN 1 ELSE 10 * Pow10(n - 1)

Scale == Pow10(FracDigits)

NaN == [nan |-> TRUE, v |-> 0]

Num(n) == [nan |-> FALSE, v |-> n]

\* the number n of whole units
Whole(n) == Num(n * Scale)

\* a + b
NumAdd(a, b) == IF a.nan \/ b.nan THEN NaN ELSE Num(a.v + b.v)

\* a - b
NumSub(a, b) == IF a.nan \/ b.nan THEN NaN ELSE Num(a.v - b.v)

RECURSIVE DigitsValue(_)
\* the value of a text of decimal digits
DigitsValue(s) ==
    IF s = <<>> THEN 0
    ELSE 10 * DigitsValue(SubSeq(s, 1, Len(s) - 1)) + DigitVal(s[Len(s)])

RECURSIVE DigitPrefix(_)
\* the longest prefix of s made of decimal digits
DigitPrefix(s) ==
    IF s # <<>> /\ Head(s) \in Digits
    THEN <<Head(s)>> \o DigitPrefix(Tail(s))
    ELSE <<>>

RECURSIVE PadRight(_, _)
PadRight(s, n) == IF Len(s) >= n THEN SubSeq(s, 1, n) ELSE PadRight(s \o <<"0">>, n)

\* parseFloat on a text of digits and '.': the longest prefix that is a
\* decimal literal (digits, then optionally '.' and digits, one digit at
\* least), NaN when there is none.  Digits after the first FracDigits
\* fractional ones are dropped.
parseFloat(s) ==
    LET ip   == DigitPrefix(s)
        rest == SubSeq(s, Len(ip) + 1, Len(s))
        fp   == IF rest # <<>> /\ Head(rest) = "." THEN DigitPrefix(Tail(rest)) ELSE <<>>
    IN  IF ip = <<>> /\ fp = <<>> THEN NaN
        ELSE Num(DigitsValue(ip) * Scale + DigitsValue(PadRight(fp, FracDigits)))

\* s.includes(c)
includes(s, c) == c \in Range(s)

\* s.replace(/c/g, '')
RemoveChar(s, c) == SelectSeq(s, LAMBDA x : x # c)

\* s.replace(/c/g, d)
ReplaceChar(s, c, d) == [i \in DOMAIN s |-> IF s[i] = c THEN d ELSE s[i]]

parseCurrency(value) ==
    IF value = <<>> THEN Whole(0)
    ELSE LET cleanStr == SelectSeq(value, LAMBDA x : x \in Digits \cup {".", ","})
         IN  IF cleanStr = <<>> THEN Whole(0)
             ELSE IF includes(cleanStr, ".") /\ ~includes(cleanStr, ",")
                  THEN parseFloat(RemoveChar(cleanStr, "."))
             ELSE IF includes(cleanStr, ",") /\ ~includes(cleanStr, ".")
                  THEN parseFloat(RemoveChar(cleanStr, ","))
             ELSE parseFloat(ReplaceChar(RemoveChar(cleanStr, "."), ",", "."))

-----------------------------------------------------------------------------
(* Dates *)

\* the empty text of a date input
NoDate == <<>>

\* the text "YYYY-MM-DD" of day d
DayText(d) == <<d>>

\* Date.prototype.toISOString
toISOString(t) == [day |-> t \div TicksPerDay, tod |-> t % TicksPerDay]

\* new Date(iso).getTime() of an ISO-8601 text
getTime(iso) == iso.day * TicksPerDay + iso.tod

\* iso.split('T')[0]
DayPart(iso) == iso.day

\* new Date("YYYY-MM-DD").getTime(): a date-only text is UTC midnight
DayTextTime(d) == d[1] * TicksPerDay

\* the local calendar day an instant falls on (getFullYear/getMonth/getDate)
LocalDay(t, z) == (t + z) \div TicksPerDay

\* Date.prototype.setHours(0,0,0,0): local midnight of the instant's local day
setHoursStart(t, z) == LocalDay(t, z) * TicksPerDay - z

\* Date.prototype.setHours(23,59,59,999): last tick of the instant's local day
setHoursEnd(t, z) == LocalDay(t, z) * TicksPerDay + (TicksPerDay - 1) - z

\* fmt(d): the local calendar day as "YYYY-MM-DD"
fmt(t, z) == DayText(LocalDay(t, z))

\* new Date(y, m, 1): local midnight of the first day of the instant's month
FirstDayOfMonth(t, z) ==
    (LocalDay(t, z) - (LocalDay(t, z) % DaysPerMonth)) * TicksPerDay - z

\* yesterday.setDate(today.getDate() - 1)
DayBefore(t) == t - TicksPerDay

\* Number.MAX_VALUE: above every instant of the model
MAX_VALUE == 1000000

-----------------------------------------------------------------------------
(* Filtering, App.tsx:117-127 *)

FilteredOrders(ords, s, e, z) ==
    IF s = NoDate /\ e = NoDate THEN ords
    ELSE LET start == IF s # NoDate THEN setHoursStart(DayTextTime(s), z) ELSE 0
             end   == IF e # NoDate THEN setHoursEnd(DayTextTime(e), z) ELSE MAX_VALUE
         IN  SelectSeq(ords, LAMBDA order :
                 getTime(order.date) >= start /\ getTime(order.date) <= end)

-----------------------------------------------------------------------------
(* Grouping by customer, App.tsx:130-168 *)

RECURSIVE InsertByDate(_, _)
\* x put behind every element that does not compare greater than it
InsertByDate(sorted, x) ==
    IF sorted = <<>> THEN <<x>>
    ELSE LET last == sorted[Len(sorted)]
         IN  IF getTime(last.date) - getTime(x.date) > 0
             THEN InsertByDate(SubSeq(sorted, 1, Len(sorted) - 1), x) \o <<last>>
             ELSE sorted \o <<x>>

\* SortByDate with the sort left out
SortByDateSkipped(s) == s

RECURSIVE SortByDate(_)
\* [...filteredOrders].sort((a,b) => time(a) - time(b)): ascending, stable
SortByDate(s) ==
    IF s = <<>> THEN <<>>
    ELSE InsertByDate(SortByDate(SubSeq(s, 1, Len(s) - 1)), s[Len(s)])

\* order.customerName.trim().toLowerCase()
GroupKey(order) == toLowerCase(trim(order.customerName))

\* the lower-case property names every object literal inherits from
\* Object.prototype: groups[key] is truthy for them although groups holds
\* no such group
ProtoKeys == { <<"c","o","n","s","t","r","u","c","t","o","r">>,
               <<"_","_","p","r","o","t","o","_","_">> }

\* groups is the sequence of its own <<key, record>> entries in insertion
\* order, the order Object.values lists them in
OwnIndex(groups, key) == {i \in DOMAIN groups : groups[i][1] = key}

\* !groups[key]
Missing(groups, key) == OwnIndex(groups, key) = {} /\ key \notin ProtoKeys

\* the record a first order of a key seeds
SeedGroup(order) ==
    [id |-> order.id, date |-> order.date, amount |-> order.amount,
     quantity |-> order.quantity, customerName |-> order.customerName,
     details |-> IF order.details # "" THEN "- " \o order.details ELSE "",
     facebookLink |-> order.facebookLink,
     subOrders |-> <<order>>]

\* MergeGroup with the amount assigned instead of added (= for +=)
MergeGroupAssigns(group, order) ==
    [id |-> group.id,
     amount |-> order.amount,
     quantity |-> group.quantity + order.quantity,
     date |-> order.date,
     customerName |-> order.customerName,
     details |-> IF order.details # ""
                 THEN IF group.details # ""
                      THEN group.details \o "\n- " \o order.details
                      ELSE "- " \o order.details
                 ELSE group.details,
     facebookLink |-> IF group.facebookLink = "" /\ order.facebookLink # ""
                      THEN order.facebookLink
                      ELSE group.facebookLink,
     subOrders |-> Append(group.subOrders, order)]

\* the in-place merge of a later order into its group
MergeGroup(group, order) ==
    [id |-> group.id,
     amount |-> NumAdd(group.amount, order.amount),
     quantity |-> group.quantity + order.quantity,
     date |-> order.date,
     customerName |-> order.customerName,
     details |-> IF order.details # ""
                 THEN IF group.details # ""
                      THEN group.details \o "\n- " \o order.details
                      ELSE "- " \o order.details
                 ELSE group.details,
     facebookLink |-> IF group.facebookLink = "" /\ order.facebookLink # ""
                      THEN order.facebookLink
                      ELSE group.facebookLink,
     subOrders |-> Append(group.subOrders, order)]

\* one pass of the forEach body
GroupStep(groups, order) ==
    LET key == GroupKey(order)
    IN  IF Missing(groups, key)
        THEN Append(groups, <<key, SeedGroup(order)>>)
        ELSE IF key \in ProtoKeys
             \* the writes land on the inherited object, which has no
             \* subOrders; Object.values never lists it
             THEN groups
             ELSE LET i == CHOOSE j \in OwnIndex(groups, key) : TRUE
                  IN  [groups EXCEPT ![i] = <<key, MergeGroup(groups[i][2], order)>>]

RECURSIVE GroupFold(_, _)
GroupFold(groups, s) ==
    IF s = <<>> THEN groups ELSE GroupFold(GroupStep(groups, Head(s)), Tail(s))

\* Object.values(groups) after the forEach
GroupValues(filtered) ==
    LET groups == GroupFold(<<>>, SortByDate(filtered))
    IN  [i \in DOMAIN groups |-> groups[i][2]]

\* (a, b) => b.amount - a.amount, a NaN result counting as +0
AmountCompare(a, b) ==
    LET d == NumSub(b.amount, a.amount)
    IN  IF d.nan THEN 0 ELSE d.v

RECURSIVE InsertByAmount(_, _)
InsertByAmount(sorted, x) ==
    IF sorted = <<>> THEN <<x>>
    ELSE LET last == sorted[Len(sorted)]
         IN  IF AmountCompare(last, x) > 0
             THEN InsertByAmount(SubSeq(sorted, 1, Len(sorted) - 1), x) \o <<last>>
             ELSE sorted \o <<x>>

RECURSIVE SortByAmount(_)
\* descending by amount, stable
SortByAmount(s) ==
    IF s = <<>> THEN <<>>
    ELSE InsertByAmount(SortByAmount(SubSeq(s, 1, Len(s) - 1)), s[Len(s)])

\* AmountCompare is a consistent comparator on s (it orders s as a strict
\* weak order): NaN compares equal to everything, so it is one only when
\* no amount is NaN or all the other amounts are equal
ConsistentByAmount(s) ==
    \/ \A i \in DOMAIN s : ~s[i].amount.nan
    \/ \A i, j \in DOMAIN s :
          (~s[i].amount.nan /\ ~s[j].amount.nan) => s[i].amount = s[j].amount

Permuted(s) == {[i \in DOMAIN s |-> s[p[i]]] : p \in Permutations(DOMAIN s)}

\* what Array.prototype.sort may return: the stable sort or, for a
\* comparator that is not consistent, an implementation-defined order
SortByAmountOutcomes(s) ==
    IF ConsistentByAmount(s) THEN {SortByAmount(s)} ELSE Permuted(s)

\* the values the groupedOrders memo may take for a filtered set
GroupedOutcomes(filtered) == SortByAmountOutcomes(GroupValues(filtered))

-----------------------------------------------------------------------------
(* Daily aggregation, top customers and totals, App.tsx:172-204 *)

StatIndex(stats, dateKey) == {i \in DOMAIN stats : stats[i].date = dateKey}

\* StatStep counting rows instead of pieces
StatStepCountsRows(stats, order) ==
    LET dateKey == DayPart(order.date)
        at      == StatIndex(stats, dateKey)
    IN  IF at = {}
        THEN Append(stats, [date |-> dateKey,
                            orderCount |-> 0 + 1,
                            revenue |-> NumAdd(Whole(0), order.amount)])
        ELSE LET i == CHOOSE j \in at : TRUE
             IN  [stats EXCEPT ![i] =
                     [date |-> dateKey,
                      orderCount |-> stats[i].orderCount + 1,
                      revenue |-> NumAdd(stats[i].revenue, order.amount)]]

\* one pass of the forEach body over the statsMap (insertion order)
StatStep(stats, order) ==
    LET dateKey == DayPart(order.date)
        at      == StatIndex(stats, dateKey)
    IN  IF at = {}
        THEN Append(stats, [date |-> dateKey,
                            orderCount |-> 0 + order.quantity,
                            revenue |-> NumAdd(Whole(0), order.amount)])
        ELSE LET i == CHOOSE j \in at : TRUE
             IN  [stats EXCEPT ![i] =
                     [date |-> dateKey,
                      orderCount |-> stats[i].orderCount + order.quantity,
                      revenue |-> NumAdd(stats[i].revenue, order.amount)]]

RECURSIVE StatFold(_, _)
StatFold(stats, s) ==
    IF s = <<>> THEN stats ELSE StatFold(StatStep(stats, Head(s)), Tail(s))

RECURSIVE InsertStat(_, _)
InsertStat(sorted, x) ==
    IF sorted = <<>> THEN <<x>>
    ELSE LET last == sorted[Len(sorted)]
         IN  IF DayTextTime(DayText(last.date)) - DayTextTime(DayText(x.date)) > 0
             THEN InsertStat(SubSeq(sorted, 1, Len(sorted) - 1), x) \o <<last>>
             ELSE sorted \o <<x>>

RECURSIVE SortStats(_)
SortStats(s) ==
    IF s = <<>> THEN <<>>
    ELSE InsertStat(SortStats(SubSeq(s, 1, Len(s) - 1)), s[Len(s)])

DailyStatsOf(filtered) == SortStats(StatFold(<<>>, filtered))

\* groupedOrders.slice(0, 5)
TopCount == 5

TopCustomersOf(grouped) ==
    [i \in 1..(IF Len(grouped) < TopCount THEN Len(grouped) ELSE TopCount) |->
        [name |-> grouped[i].customerName,
         totalOrders |-> grouped[i].quantity,
         totalRevenue |-> grouped[i].amount,
         lastOrderDate |-> grouped[i].date]]

RECURSIVE RevenueReduce(_, _)
\* dailyStats.reduce((sum, day) => sum + day.revenue, sum0)
RevenueReduce(sum, stats) ==
    IF stats = <<>> THEN sum
    ELSE RevenueReduce(NumAdd(sum, Head(stats).revenue), Tail(stats))

RECURSIVE CountReduce(_, _)
\* dailyStats.reduce((sum, day) => sum + day.orderCount, sum0)
CountReduce(sum, stats) ==
    IF stats = <<>> THEN sum
    ELSE CountReduce(sum + Head(stats).orderCount, Tail(stats))

TotalRevenueOf(stats) == RevenueReduce(Whole(0), stats)

TotalOrdersOf(stats) == CountReduce(0, stats)

\* a quotient num / den of a number by a count, kept as the pair
Quotient(num, den) == [num |-> num, den |-> den]

\* AverageOf without the guard against a count of 0
AverageOfUnguarded(tRevenue, tOrders) == Quotient(tRevenue, tOrders)

AverageOf(tRevenue, tOrders) ==
    IF tOrders > 0 THEN Quotient(tRevenue, tOrders) ELSE Quotient(Whole(0), 1)

\* the memo values of the current render
filteredOrders == FilteredOrders(orders, startDate, endDate, tz)

dailyStats == DailyStatsOf(filteredOrders)

topCustomers == TopCustomersOf(groupedOrders)

totalRevenue == TotalRevenueOf(dailyStats)

totalOrders == TotalOrdersOf(dailyStats)

averageOrderValue == AverageOf(totalRevenue, totalOrders)

-----------------------------------------------------------------------------
(* The record builder of fetchSalesData, dataService:127-159.  A data row   *)
(* is given by the cells the column mapper found for it; its date cell is  *)
(* given by the instant parseDate returns for it.                          *)

\* value.replace(/[^0-9]/g, ''); parseInt(cleanStr, 10) || 1
parseNumber(value) ==
    IF value = <<>> THEN 1
    ELSE LET cleanStr == SelectSeq(value, LAMBDA x : x \in Digits)
         IN  IF cleanStr = <<>> \/ DigitsValue(cleanStr) = 0
             THEN 1
             ELSE DigitsValue(cleanStr)

RECURSIVE NatText(_)
\* String(n) of a natural number
NatText(n) == IF n < 10 THEN <<DigitChar(n)>> ELSE NatText(n \div 10) \o <<DigitChar(n % 10)>>

\* `Khach ${index + 1}`
PlaceholderName(index) == <<"K", "h", "a", "c", "h", " ">> \o NatText(index + 1)

BuildOrder(row, index) ==
    [id |-> <<"row", index>>,
     date |-> toISOString(row.date),
     amount |-> parseCurrency(row.amount),
     quantity |-> parseNumber(row.quantity),
     customerName |-> IF row.name # <<>> THEN row.name ELSE PlaceholderName(index),
     details |-> row.details,
     facebookLink |-> row.link]

\* dataLines.map((line, index) => ...)
BuildOrders(rows) == [i \in DOMAIN rows |-> BuildOrder(rows[i], i - 1)]

Row(name, date, amount, quantity, details, link) ==
    [name |-> name, date |-> date, amount |-> amount, quantity |-> quantity,
     details |-> details, link |-> link]

\* the data rows sheets are drawn from
RowPool ==
    { Row(<<"A", "n">>, 1, <<"1">>, <<"1">>, "", ""),
      Row(<<" ", "a", "n", " ">>, 1, <<"2">>, <<"2">>, "x", "fb"),
      Row(<<"B", "i", "n", "h">>, 5, <<"3">>, <<"1">>, "y", ""),
      Row(<<"C", "o", "n", "s", "t", "r", "u", "c", "t", "o", "r">>, 2, <<"2">>, <<"1">>, "", ""),
      Row(<<"A", "n">>, -1, <<".">>, <<>>, "", "fb"),
      Row(<<"B", "i", "n", "h">>, 4, <<"1", ".", "0", ",", "5">>, <<"3">>, "", ""),
      Row(<<>>, -3, <<>>, <<"x">>, "z", ""),
      Row(<<"A", "n">>, 7, <<"1">>, <<"1">>, "", "") }

\* sheets of at most MaxRows rows of the pool
PoolSheets == UNION {[1..n -> RowPool] : n \in 0..MaxRows}

\* row i of a sheet with one customer per row
TopRow(i, amount) == Row(<<"K">> \o NatText(i), i, amount, <<"1">>, "", "")

\* sheets of MaxTopRows - 1 or MaxTopRows rows, each of a customer of its own
TopSheets ==
    UNION { {[i \in 1..n |-> TopRow(i, a[i])] : a \in [1..n -> {<<"1">>, <<"2">>}]} :
            n \in {MaxTopRows - 1, MaxTopRows} }

\* what a fetch of the pipeline specification may return
AggResults == {BuildOrders(rows) : rows \in PoolSheets \cup TopSheets}

\* what a fetch of the lifecycle specification may return: an empty sheet
\* and two versions of a sheet
FetchResults ==
    { <<>>,
      BuildOrders(<<Row(<<"A", "n">>, 1, <<"1">>, <<"1">>, "", "")>>),
      BuildOrders(<<Row(<<"A", "n">>, 1, <<"1">>, <<"1">>, "", ""),
                    Row(<<"B", "i", "n", "h">>, 5, <<"3">>, <<"1">>, "y", "")>>) }

\* error.message of a rejected fetch: a non-2xx status, a network failure,
\* an error without a message
ErrorMessages == {"Loi ket noi: 500", "Failed to fetch", ""}

-----------------------------------------------------------------------------
(* getMockData, dataService:167-192 *)

\* the two random draws of one mock order: <<amount, quantity>>
MockDraws == {<<100000, 1>>, <<599999, 3>>}

\* String.fromCharCode(65 + j)
LetterOf(j) == UpperLetters[j + 1]

MockOrder(i, j, draw, today) ==
    [id |-> <<"mock", i, j>>,
     date |-> toISOString(today - i * TicksPerDay),
     amount |-> Whole(draw[1]),
     quantity |-> draw[2],
     customerName |-> <<"N", "g", "u", "y", "e", "n", " ", "V", "a", "n", " ">> \o <<LetterOf(j)>>,
     details |-> "Combo 2 ao thun",
     facebookLink |-> "https://facebook.com"]

\* the draws of one day: 1..MockMaxPerDay orders
MockDayDraws == UNION {[0..(n - 1) -> MockDraws] : n \in 1..MockMaxPerDay}

RECURSIVE MockFlatten(_, _, _)
\* data.push in the order of the two loops, from day i on
MockFlatten(draws, i, today) ==
    IF i >= MockDays THEN <<>>
    ELSE [k \in 1..Cardinality(DOMAIN draws[i]) |-> MockOrder(i, k - 1, draws[i][k - 1], today)]
         \o MockFlatten(draws, i + 1, today)

MockDataSets(today) ==
    {MockFlatten(draws, 0, today) : draws \in [0..(MockDays - 1) -> MockDayDraws]}

-----------------------------------------------------------------------------
(* fetchSalesData on a response body, dataService:56-73 and 96-159.  A     *)
(* body is given by its lines (csvText.split('\n')); a line and a cell are *)
(* sequences of one-character strings.                                     *)

Quote == "\""

\* the text of a character sequence as one string
RECURSIVE Join(_)
Join(s) == IF s = <<>> THEN "" ELSE Head(s) \o Join(Tail(s))

\* v.replace(/^"|"$/g, ''): a quote at the start and a quote at the end
StripQuotes(v) ==
    LET a == IF v # <<>> /\ Head(v) = Quote THEN Tail(v) ELSE v
    IN  IF a # <<>> /\ a[Len(a)] = Quote THEN SubSeq(a, 1, Len(a) - 1) ELSE a

\* ParseScan splitting at every delimiter, the inQuote flag left out
RECURSIVE ParseScanIgnoresQuotes(_, _, _, _, _)
ParseScanIgnoresQuotes(text, i, result, curValue, inQuote) ==
    IF i > Len(text) THEN Append(result, curValue)
    ELSE IF text[i] = Quote
         THEN ParseScanIgnoresQuotes(text, i + 1, result, curValue, ~inQuote)
    ELSE IF text[i] = ","
         THEN ParseScanIgnoresQuotes(text, i + 1, Append(result, curValue), <<>>, inQuote)
    ELSE ParseScanIgnoresQuotes(text, i + 1, result, Append(curValue, text[i]), inQuote)

\* the for loop of parseCSVLine from position i on, and the final push
RECURSIVE ParseScan(_, _, _, _, _)
ParseScan(text, i, result, curValue, inQuote) ==
    IF i > Len(text) THEN Append(result, curValue)
    ELSE IF text[i] = Quote
         THEN ParseScan(text, i + 1, result, curValue, ~inQuote)
    ELSE IF text[i] = "," /\ ~inQuote
         THEN ParseScan(text, i + 1, Append(result, curValue), <<>>, inQuote)
    ELSE ParseScan(text, i + 1, result, Append(curValue, text[i]), inQuote)

parseCSVLine(text) ==
    LET result == ParseScan(text, 1, <<>>, <<>>, FALSE)
    IN  [i \in DOMAIN result |-> trim(StripQuotes(trim(result[i])))]

\* h.includes(k) for a text k
includesText(h, k) ==
    \E i \in 1..(Len(h) - Len(k) + 1) : SubSeq(h, i, i + Len(k) - 1) = k

\* the canonical fields findVal is called for
Fields == {"date", "name", "quantity", "amount", "details", "link"}

\* the keywords of a canonical field of findVal, dataService:142-147
\* (the letter d with stroke is written "dd", its capital "DD")
Keywords(field) ==
    CASE field = "date" ->
    <<<<"t", "h", "ờ", "i", " ", "g", "i", "a", "n">>,
      <<"n", "g", "à", "y">>,
      <<"t", "i", "m", "e">>,
      <<"d", "a", "t", "e">>>>
      [] field = "name" ->
    <<<<"t", "ê", "n", " ", "k", "h", "á", "c", "h">>,
      <<"k", "h", "á", "c", "h", " ", "h", "à", "n", "g">>,
      <<"n", "a", "m", "e">>>>
      [] field = "quantity" ->
    <<<<"s", "ố", " ", "dd", "ơ", "n">>,
      <<"s", "ố", " ", "l", "ư", "ợ", "n", "g">>,
      <<"q", "u", "a", "n", "t", "i", "t", "y">>>>
      [] field = "amount" ->
    <<<<"t", "ổ", "n", "g", " ", "t", "i", "ề", "n">>,
      <<"d", "o", "a", "n", "h", " ", "t", "h", "u">>,
      <<"a", "m", "o", "u", "n", "t">>,
      <<"t", "h", "à", "n", "h", " ", "t", "i", "ề", "n">>>>
      [] field = "details" ->
    <<<<"c", "h", "i", " ", "t", "i", "ế", "t">>,
      <<"n", "ộ", "i", " ", "d", "u", "n", "g">>,
      <<"c", "o", "m", "m", "e", "n", "t">>,
      <<"p", "r", "o", "d", "u", "c", "t">>>>
      [] field = "link" ->
    <<<<"l", "i", "n", "k", " ", "f", "a", "c", "e", "b", "o", "o", "k">>,
      <<"f", "a", "c", "e", "b", "o", "o", "k">>,
      <<"f", "b">>>>

\* row is the sequence of its <<header, value>> entries in insertion order
RowIndexOf(row, h) == {i \in DOMAIN row : row[i][1] = h}

\* row[h] = v
RowSet(row, h, v) ==
    IF RowIndexOf(row, h) = {}
    THEN Append(row, <<h, v>>)
    ELSE LET i == CHOOSE j \in RowIndexOf(row, h) : TRUE
         IN  [row EXCEPT ![i] = <<h, v>>]

\* row[h] of a header h
RowGet(row, h) ==
    LET i == CHOOSE j \in RowIndexOf(row, h) : TRUE IN row[i][2]

\* headers.forEach((h, i) => { row[h] = values[i] || '' }) from column i on
RECURSIVE RowFill(_, _, _, _)
RowFill(headers, values, i, row) ==
    IF i > Len(headers) THEN row
    ELSE RowFill(headers, values, i + 1,
             RowSet(row, headers[i], IF i <= Len(values) THEN values[i] ELSE <<>>))

\* keywords.some(k => h.includes(k))
SomeKeyword(h, keywords) == \E n \in DOMAIN keywords : includesText(h, keywords[n])

findVal(headers, row, keywords) ==
    LET hits == {i \in DOMAIN headers : SomeKeyword(headers[i], keywords)}
    IN  IF hits = {} THEN <<>>
        ELSE LET i == CHOOSE j \in hits : \A k \in hits : j <= k
             IN  IF headers[i] # <<>> THEN RowGet(row, headers[i]) ELSE <<>>

\* the year day number 0 (the epoch) lies in
EpochYear == 1970

\* the largest day of a month a date text may name
DayLimit == 31

\* the day number of day d of month m of year y, days past the end of the
\* month rolling over
DayNumber(y, m, d) == ((y - EpochYear) * MonthsPerYear + (m - 1)) * DaysPerMonth + (d - 1)

InvalidDate == [ok |-> FALSE, t |-> 0]

ValidDate(t) == [ok |-> TRUE, t |-> t]

\* the engines' Date.parse: "strict" takes the ISO format and the
\* month/day/year format only, "lenient" also what it can make sense of
Engines == {"strict", "lenient"}

\* new Date(text) for a text of three numbers around two separators:
\*  - YYYY-MM-DD is the ISO date-only format, UTC midnight of the day; a day
\*    past the end of its month is no date (strict) or rolls over (lenient);
\*  - YYYY-M-D with a one-digit month or day is no ISO format: no date
\*    (strict) or local midnight of the day (lenient);
\*  - M/D/YYYY is local midnight of day D of month M;
\* every other text is no date.
DateParse(text, z, engine) ==
    LET seps == {i \in DOMAIN text : text[i] \notin Digits}
    IN  IF Cardinality(seps) # 2 THEN InvalidDate
        ELSE LET p == CHOOSE i \in seps : \A j \in seps : i <= j
                 q == CHOOSE i \in seps : \A j \in seps : i >= j
                 A == SubSeq(text, 1, p - 1)
                 B == SubSeq(text, p + 1, q - 1)
                 C == SubSeq(text, q + 1, Len(text))
                 a == DigitsValue(A)
                 b == DigitsValue(B)
                 c == DigitsValue(C)
             IN  IF text[p] = "-" /\ text[q] = "-" /\ Len(A) = 4
                    /\ Len(B) \in 1..2 /\ Len(C) \in 1..2
                 THEN IF b \notin 1..MonthsPerYear \/ c \notin 1..DayLimit
                      THEN InvalidDate
                      ELSE IF Len(B) = 2 /\ Len(C) = 2
                      THEN IF c <= DaysPerMonth \/ engine = "lenient"
                           THEN ValidDate(DayNumber(a, b, c) * TicksPerDay)
                           ELSE InvalidDate
                      ELSE IF engine = "lenient"
                           THEN ValidDate(DayNumber(a, b, c) * TicksPerDay - z)
                           ELSE InvalidDate
                 ELSE IF text[p] = "/" /\ text[q] = "/" /\ Len(C) = 4
                         /\ Len(A) \in 1..2 /\ Len(B) \in 1..2
                 THEN IF a \notin 1..MonthsPerYear \/ b \notin 1..DayLimit
                      THEN InvalidDate
                      ELSE ValidDate(DayNumber(c, a, b) * TicksPerDay - z)
                 ELSE InvalidDate

DateSeparators == {"/", "-", "."}

\* /(\d{1,2})[\/\-\.](\d{1,2})[\/\-\.](\d{4})/ matches at position i with a
\* first group of a and a second group of b digits
DateMatchAt(s, i, a, b) ==
    LET j == i + a
        k == j + 1 + b
    IN  /\ k + 4 <= Len(s)
        /\ \A x \in i..(j - 1) : s[x] \in Digits
        /\ s[j] \in DateSeparators
        /\ \A x \in (j + 1)..(k - 1) : s[x] \in Digits
        /\ s[k] \in DateSeparators
        /\ \A x \in (k + 1)..(k + 4) : s[x] \in Digits

\* the places and group lengths the pattern matches with
DateMatches(s) ==
    {m \in (DOMAIN s) \X {1, 2} \X {1, 2} : DateMatchAt(s, m[1], m[2], m[3])}

\* the order the match is searched in: leftmost, each group greedy
MatchRank(m) == m[1] * 4 + (2 - m[2]) * 2 + (2 - m[3])

\* `${parts[3]}-${parts[2]}-${parts[1]}` of value.match(...)
DateParts(s) ==
    LET m == CHOOSE x \in DateMatches(s) : \A y \in DateMatches(s) : MatchRank(x) <= MatchRank(y)
        j == m[1] + m[2]
        k == j + 1 + m[3]
    IN  SubSeq(s, k + 1, k + 4) \o <<"-">> \o SubSeq(s, j + 1, k - 1)
            \o <<"-">> \o SubSeq(s, m[1], j - 1)

\* parseDate at instant t in time zone z
parseDate(value, t, z, engine) ==
    IF value = <<>> THEN toISOString(t)
    ELSE LET d1 == IF DateMatches(value) # {}
                   THEN DateParse(DateParts(value), z, engine)
                   ELSE InvalidDate
             d2 == DateParse(value, z, engine)
         IN  IF d1.ok THEN toISOString(d1.t)
             ELSE IF d2.ok THEN toISOString(d2.t)
             ELSE toISOString(t)

\* the cells findVal hands to the record builder for one data line
CellsOf(headers, values) ==
    LET row == RowFill(headers, values, 1, <<>>)
    IN  [field \in Fields |-> findVal(headers, row, Keywords(field))]

\* the object the map callback returns, dataService:149-158
SheetOrder(cells, index, t, z, engine) ==
    BuildOrder(Row(cells.name, getTime(parseDate(cells.date, t, z, engine)),
                   cells.amount, cells.quantity,
                   Join(cells.details), Join(cells.link)),
               index)

\* csvText.split('\n').filter(line => line.trim() !== '')
NonBlank(lines) == SelectSeq(lines, LAMBDA line : trim(line) # <<>>)

NoSheet == [lines |-> <<>>, fields |-> <<>>, headers |-> <<>>, cells |-> <<>>,
            data |-> <<>>]

\* fetchSalesData from the response body on: the non-blank lines, their
\* fields, the lower-cased headers, the cells of every data line and the
\* orders returned
Ingest(body, t, z, engine) ==
    LET lines == NonBlank(body)
    IN  IF Len(lines) < 2
        THEN [lines |-> lines, fields |-> <<>>, headers |-> <<>>, cells |-> <<>>,
              data |-> <<>>]
        ELSE LET fields  == [i \in DOMAIN lines |-> parseCSVLine(lines[i])]
                 headers == [i \in DOMAIN fields[1] |-> toLowerCase(fields[1][i])]
                 cells   == [n \in 1..(Len(lines) - 1) |-> CellsOf(headers, fields[n + 1])]
             IN  [lines |-> lines, fields |-> fields, headers |-> headers,
                  cells |-> cells,
                  data |-> [n \in DOMAIN cells |-> SheetOrder(cells[n], n - 1, t, z, engine)]]

\* header lines sheets are drawn from: the columns of the sheet, the English
\* keywords in upper case, a header text occurring twice, a quoted header
\* with two headers of one field
HeaderPool ==
    { <<"T", "h", "ờ", "i", " ", "G", "i", "a", "n", ",", "T", "ê", "n", " ", "K", "h", "á", "c", "h", ",", "S", "ố", " ", "DD", "ơ", "n", ",", "T", "ổ", "n", "g", " ", "T", "i", "ề", "n", ",", "C", "h", "i", " ", "T", "i", "ế", "t", ",", "L", "i", "n", "k", " ", "F", "a", "c", "e", "b", "o", "o", "k">>,
      <<"T", "i", "m", "e", ",", "N", "a", "m", "e", ",", "Q", "u", "a", "n", "t", "i", "t", "y", ",", "A", "m", "o", "u", "n", "t", ",", "C", "o", "m", "m", "e", "n", "t", ",", "F", "B">>,
      <<"d", "a", "t", "e", ",", "n", "a", "m", "e", ",", "a", "m", "o", "u", "n", "t", ",", "a", "m", "o", "u", "n", "t", ",", "s", "ố", " ", "l", "ư", "ợ", "n", "g">>,
      <<"\"", "N", "a", "m", "e", ",", " ", "f", "u", "l", "l", "\"", " ", ",", " ", "O", "r", "d", "e", "r", " ", "D", "a", "t", "e", ",", "t", "o", "t", "a", "l", " ", "a", "m", "o", "u", "n", "t", ",", "d", "e", "p", "o", "s", "i", "t", " ", "a", "m", "o", "u", "n", "t">> }

\* data lines sheets are drawn from
LinePool ==
    { <<"0", "2", "/", "0", "1", "/", "1", "9", "7", "0", " ", "1", "0", ":", "3", "0", ",", "A", "n", ",", "2", ",", "\"", "1", ".", "0", "0", "0", ",", "5", "\"", ",", "x", ",", "f", "b">>,
      <<"2", "/", "1", "/", "1", "9", "7", "0", ",", " ", "a", "n", " ", ",", "1", ",", ".", ",", "y">>,
      <<"1", "9", "7", "0", "-", "0", "1", "-", "0", "1", ",", "A", "n", ",", "0", ",", "3", ",", "4">>,
      <<"x", ",", ",", "a", "b", "c", ",", "\"", "2", "\"">>,
      <<"0", "3", "/", "0", "1", "/", "1", "9", "7", "0", ",", "\"", "B", "i", "n", "h", "\"", ",", "\"", "a", "\"", "b", ",", "1", " ", ",", "\"", "c", ",", "d">>,
      <<"1", "-", "2", "-", "1", "9", "7", "0", ",", "B", "i", "n", "h", ",", "7", ",", "2", ",", "3", ",", ",">> }

\* the response bodies: a header line and 0..MaxSheetRows data lines, a blank
\* line between them
Bodies ==
    UNION { {<<h, <<" ">>>> \o rows : rows \in [1..n -> LinePool]} :
            h \in HeaderPool, n \in 0..MaxSheetRows }

-----------------------------------------------------------------------------
(* The component: state after construction, handlers, App.tsx:12-114 *)

TzOffsets == {-1, 0, 1}

\* the instant the run takes place at: the third tick of day 1
NowInstants == {TicksPerDay + 2}

\* the texts a date input may hand to handleManualDateChange
FilterDates == {NoDate, DayText(0), DayText(1)}

FilterTypes == {"today", "yesterday", "thisMonth", "all"}

EmptySheetMsg == "Khong tim thay du lieu nao trong Sheet"

UnknownErrorMsg == "Loi khong xac dinh khi tai du lieu."

NoEvent == [kind |-> "none", by |-> 0, data |-> <<>>, before |-> <<>>, over |-> 0]

Init ==
    /\ orders = <<>>
    /\ loadingState = "IDLE"
    /\ errorMsg = ""
    /\ isUsingMock = FALSE
    /\ startDate = NoDate
    /\ endDate = NoDate
    /\ activeFilter = "thisMonth"
    /\ groupedOrders = <<>>
    /\ mounted = "no"
    /\ timerOn = FALSE
    /\ inflight = {}
    /\ nextFetch = 1
    /\ source = [kind |-> "initial", id |-> 0, data |-> <<>>]
    /\ lastDone = NoEvent
    /\ tz \in TzOffsets
    /\ now \in NowInstants
    /\ sheet = NoSheet

\* the screens the render chooses between, App.tsx:208,219
LoadingScreen == loadingState = "LOADING" /\ orders = <<>>

ErrorScreen == loadingState = "ERROR" /\ orders = <<>>

MainView == mounted = "yes" /\ ~LoadingScreen /\ ~ErrorScreen

\* the render that follows a handler: the groupedOrders memo is computed
\* again when its inputs changed
Render ==
    IF <<orders', startDate', endDate'>> = <<orders, startDate, endDate>>
    THEN groupedOrders' = groupedOrders
    ELSE groupedOrders' \in GroupedOutcomes(FilteredOrders(orders', startDate', endDate', tz))

\* applyDateFilter(type), App.tsx:35-57
SetDateFilter(type) ==
    /\ activeFilter' = type
    /\ CASE type = "today" ->
              /\ startDate' = fmt(now, tz)
              /\ endDate' = fmt(now, tz)
         [] type = "yesterday" ->
              /\ startDate' = fmt(DayBefore(now), tz)
              /\ endDate' = fmt(DayBefore(now), tz)
         [] type = "thisMonth" ->
              /\ startDate' = fmt(FirstDayOfMonth(now, tz), tz)
              /\ endDate' = fmt(now, tz)
         [] type = "all" ->
              /\ startDate' = NoDate
              /\ endDate' = NoDate
         [] OTHER -> UNCHANGED <<startDate, endDate>>

\* loadData(isAutoRefresh) up to its await, App.tsx:65-74
StartLoad(isAutoRefresh) ==
    /\ nextFetch <= MaxFetches
    /\ loadingState' = IF ~isAutoRefresh THEN "LOADING" ELSE loadingState
    /\ errorMsg' = ""
    /\ isUsingMock' = FALSE
    /\ inflight' = inflight \cup {nextFetch}
    /\ nextFetch' = nextFetch + 1
    /\ lastDone' = [kind |-> "start", by |-> nextFetch, data |-> <<>>,
                     before |-> orders, over |-> source.id]

\* the effect of App.tsx:99-114
Mount ==
    /\ mounted = "no"
    /\ SetDateFilter("thisMonth")
    /\ StartLoad(FALSE)
    /\ mounted' = "yes"
    /\ timerOn' = TRUE
    /\ UNCHANGED <<orders, source, tz, now, sheet>>
    /\ Render

\* the refresh button, App.tsx:295, and the retry button, App.tsx:227
ManualLoad ==
    /\ mounted = "yes"
    /\ MainView \/ ErrorScreen
    /\ StartLoad(FALSE)
    /\ UNCHANGED <<orders, startDate, endDate, activeFilter, mounted, timerOn,
                   source, tz, now, sheet>>
    /\ Render

\* the interval callback, App.tsx:107-110
TimerFire ==
    /\ timerOn
    /\ StartLoad(TRUE)
    /\ UNCHANGED <<orders, startDate, endDate, activeFilter, mounted, timerOn,
                   source, tz, now, sheet>>
    /\ Render

\* LoadResolved adding the fetched rows to the dataset it holds
LoadResolvedAppends(f, data) ==
    /\ f \in inflight
    /\ inflight' = inflight \ {f}
    /\ IF Len(data) = 0
       THEN /\ errorMsg' = EmptySheetMsg
            /\ loadingState' = "ERROR"
            /\ orders' = orders
            /\ source' = source
       ELSE /\ orders' = orders \o data
            /\ loadingState' = "SUCCESS"
            /\ errorMsg' = errorMsg
            /\ source' = [kind |-> "fetch", id |-> f, data |-> data]
    /\ lastDone' = [kind |-> "resolved", by |-> f, data |-> data,
                     before |-> orders, over |-> source.id]
    /\ UNCHANGED <<isUsingMock, startDate, endDate, activeFilter, mounted, timerOn,
                   nextFetch, tz, now>>
    /\ Render

\* LoadResolved without the test for an empty result
LoadResolvedAlwaysSets(f, data) ==
    /\ f \in inflight
    /\ inflight' = inflight \ {f}
    /\ orders' = data
    /\ loadingState' = "SUCCESS"
    /\ errorMsg' = errorMsg
    /\ source' = [kind |-> "fetch", id |-> f, data |-> data]
    /\ lastDone' = [kind |-> "resolved", by |-> f, data |-> data,
                     before |-> orders, over |-> source.id]
    /\ UNCHANGED <<isUsingMock, startDate, endDate, activeFilter, mounted, timerOn,
                   nextFetch, tz, now>>
    /\ Render

\* LoadResolved dropping the result of a call older than the one whose
\* result is held
LoadResolvedDropsStale(f, data) ==
    /\ f \in inflight
    /\ inflight' = inflight \ {f}
    /\ IF Len(data) = 0
       THEN /\ errorMsg' = EmptySheetMsg
            /\ loadingState' = "ERROR"
            /\ orders' = orders
            /\ source' = source
       ELSE IF source.kind = "fetch" /\ f < source.id
       THEN /\ orders' = orders
            /\ loadingState' = loadingState
            /\ errorMsg' = errorMsg
            /\ source' = source
       ELSE /\ orders' = data
            /\ loadingState' = "SUCCESS"
            /\ errorMsg' = errorMsg
            /\ source' = [kind |-> "fetch", id |-> f, data |-> data]
    /\ lastDone' = [kind |-> "resolved", by |-> f, data |-> data,
                     before |-> orders, over |-> source.id]
    /\ UNCHANGED <<isUsingMock, startDate, endDate, activeFilter, mounted, timerOn,
                   nextFetch, tz, now>>
    /\ Render

\* loadData after its await, the fetch having returned data, App.tsx:75-82
LoadResolved(f, data) ==
    /\ f \in inflight
    /\ inflight' = inflight \ {f}
    /\ IF Len(data) = 0
       THEN /\ errorMsg' = EmptySheetMsg
            /\ loadingState' = "ERROR"
            /\ orders' = orders
            /\ source' = source
       ELSE /\ orders' = data
            /\ loadingState' = "SUCCESS"
            /\ errorMsg' = errorMsg
            /\ source' = [kind |-> "fetch", id |-> f, data |-> data]
    /\ lastDone' = [kind |-> "resolved", by |-> f, data |-> data,
                     before |-> orders, over |-> source.id]
    /\ UNCHANGED <<isUsingMock, startDate, endDate, activeFilter, mounted, timerOn,
                   nextFetch, tz, now>>
    /\ Render

\* loadData after its await, the fetch having thrown, App.tsx:83-87
LoadRejected(f, message) ==
    /\ f \in inflight
    /\ inflight' = inflight \ {f}
    /\ errorMsg' = IF message # "" THEN message ELSE UnknownErrorMsg
    /\ loadingState' = "ERROR"
    /\ lastDone' = [kind |-> "rejected", by |-> f, data |-> <<>>,
                     before |-> orders, over |-> source.id]
    /\ UNCHANGED <<orders, isUsingMock, startDate, endDate, activeFilter, mounted,
                   timerOn, nextFetch, source, tz, now, sheet>>
    /\ Render

\* loadMockData, App.tsx:90-96: the demo button of the error screen
LoadMockData ==
    /\ mounted = "yes"
    /\ ErrorScreen
    /\ \E data \in MockDataSets(now) :
          /\ orders' = data
          /\ source' = [kind |-> "mock", id |-> 0, data |-> data]
          /\ lastDone' = [kind |-> "mock", by |-> 0, data |-> data,
                           before |-> orders, over |-> source.id]
    /\ isUsingMock' = TRUE
    /\ loadingState' = "SUCCESS"
    /\ errorMsg' = ""
    /\ SetDateFilter("thisMonth")
    /\ UNCHANGED <<mounted, timerOn, inflight, nextFetch, tz, now, sheet>>
    /\ Render

\* a quick-filter button, App.tsx:265
ApplyDateFilter ==
    /\ MainView
    /\ \E type \in FilterTypes : SetDateFilter(type)
    /\ UNCHANGED <<orders, loadingState, errorMsg, isUsingMock, mounted, timerOn,
                   inflight, nextFetch, source, lastDone, tz, now, sheet>>
    /\ Render

\* handleManualDateChange, App.tsx:59-63: one of the two date inputs changed
HandleManualDateChange ==
    /\ MainView
    /\ \E start, end \in FilterDates :
          /\ start = startDate \/ end = endDate
          /\ startDate' = start
          /\ endDate' = end
    /\ activeFilter' = "custom"
    /\ UNCHANGED <<orders, loadingState, errorMsg, isUsingMock, mounted, timerOn,
                   inflight, nextFetch, source, lastDone, tz, now, sheet>>
    /\ Render

\* Unmount without clearInterval
UnmountKeepsTimer ==
    /\ mounted = "yes"
    /\ mounted' = "gone"
    /\ timerOn' = timerOn
    /\ lastDone' = [kind |-> "cleanup", by |-> 0, data |-> <<>>,
                     before |-> orders, over |-> source.id]
    /\ UNCHANGED <<orders, loadingState, errorMsg, isUsingMock, startDate, endDate,
                   activeFilter, inflight, nextFetch, source, tz, now, sheet>>
    /\ Render

\* the cleanup of the effect, App.tsx:113
Unmount ==
    /\ mounted = "yes"
    /\ mounted' = "gone"
    /\ timerOn' = FALSE
    /\ lastDone' = [kind |-> "cleanup", by |-> 0, data |-> <<>>,
                     before |-> orders, over |-> source.id]
    /\ UNCHANGED <<orders, loadingState, errorMsg, isUsingMock, startDate, endDate,
                   activeFilter, inflight, nextFetch, source, tz, now, sheet>>
    /\ Render

Resolve ==
    \E f \in inflight : \E data \in FetchResults :
        LoadResolved(f, data) /\ sheet' = sheet

Reject == \E f \in inflight : \E message \in ErrorMessages : LoadRejected(f, message)

Next ==
    \/ Mount
    \/ ManualLoad
    \/ TimerFire
    \/ Resolve
    \/ Reject
    \/ LoadMockData
    \/ ApplyDateFilter
    \/ Unmount

\* the lifecycle of the dataset (the date inputs are left to SpecAgg)
Spec == Init /\ [][Next]_vars

NextLive ==
    \/ Mount
    \/ ManualLoad
    \/ TimerFire
    \/ Resolve
    \/ Reject
    \/ Unmount

\* the loadData calls and the cleanup (the quick filters and the demo data
\* start and end no call), with the promise of every fetch settling: the
\* continuation of a call suspended at its await is run in the end
SpecLive == Init /\ [][NextLive]_vars /\ WF_vars(Resolve \/ Reject)

ResolveAgg ==
    \E f \in inflight : \E data \in AggResults :
        LoadResolved(f, data) /\ sheet' = sheet

NextAgg ==
    \/ Mount
    \/ ResolveAgg
    \/ ApplyDateFilter
    \/ HandleManualDateChange

\* the pipeline over the dataset of the initial load
SpecAgg == Init /\ [][NextAgg]_vars

\* the initial fetch answered with a response body, on some engine
ResolveSheet ==
    \E f \in inflight : \E body \in Bodies : \E engine \in Engines :
        LET read == Ingest(body, now, tz, engine)
        IN  LoadResolved(f, read.data) /\ sheet' = read

NextSheet ==
    \/ Mount
    \/ ResolveSheet
    \/ ApplyDateFilter

\* the initial load answered with a response body, and the quick filters
SpecSheet == Init /\ [][NextSheet]_vars

-----------------------------------------------------------------------------
(* Claims *)

SeqSet(s) == {s[i] : i \in DOMAIN s}

RECURSIVE SumAmounts(_)
\* the sum of amount over a sequence of orders
SumAmounts(s) ==
    IF s = <<>> THEN Whole(0)
    ELSE LET rest == SumAmounts(SubSeq(s, 1, Len(s) - 1))
             a    == s[Len(s)].amount
         IN  IF rest.nan \/ a.nan THEN NaN ELSE Num(rest.v + a.v)

RECURSIVE SumQuantities(_)
\* the sum of quantity over a sequence of orders
SumQuantities(s) ==
    IF s = <<>> THEN 0
    ELSE SumQuantities(SubSeq(s, 1, Len(s) - 1)) + s[Len(s)].quantity

\* the normalized name of an order: trimmed, lower case
NormalName(o) == toLowerCase(trim(o.customerName))

\* the instant of an order
TimeOf(o) == o.date.day * TicksPerDay + o.date.tod

\* the position of a fetched order in its sheet
RowIndex(o) == o.id[2]

\* C1: every grouped record's amount is the sum of amount over its
\* subOrders and its quantity the sum of quantity over them.
C1_GroupSums ==
    \A i \in DOMAIN groupedOrders :
        /\ groupedOrders[i].amount = SumAmounts(groupedOrders[i].subOrders)
        /\ groupedOrders[i].quantity = SumQuantities(groupedOrders[i].subOrders)

\* a record of three sub-orders with different amounts, under a date filter
C1_Witness ==
    /\ startDate # NoDate
    /\ \E i \in DOMAIN groupedOrders :
          LET g == groupedOrders[i]
          IN  /\ Len(g.subOrders) = 3
              /\ g.subOrders[1].amount # g.subOrders[2].amount
              /\ g.subOrders[1].quantity # g.subOrders[2].quantity
              /\ ~g.amount.nan

\* C2: grouping partitions the filtered orders by normalized name: one
\* record per distinct key, every filtered order in the subOrders of exactly
\* one record, two orders in the same record exactly when their normalized
\* names are equal.
C2_GroupingPartitions ==
    /\ \A i, j \in DOMAIN groupedOrders :
          NormalName(groupedOrders[i]) = NormalName(groupedOrders[j]) => i = j
    /\ \A k \in DOMAIN filteredOrders :
          /\ Cardinality({i \in DOMAIN groupedOrders :
                            filteredOrders[k] \in SeqSet(groupedOrders[i].subOrders)}) = 1
          /\ \A i \in DOMAIN groupedOrders :
                filteredOrders[k] \in SeqSet(groupedOrders[i].subOrders)
                    => NormalName(groupedOrders[i]) = NormalName(filteredOrders[k])
    /\ \A k, l \in DOMAIN filteredOrders :
          (\E i \in DOMAIN groupedOrders :
              {filteredOrders[k], filteredOrders[l]} \subseteq SeqSet(groupedOrders[i].subOrders))
          <=> NormalName(filteredOrders[k]) = NormalName(filteredOrders[l])

\* o is processed last among the orders of s: latest date, and among the
\* orders of that date the last row
ProcessedLast(o, s) ==
    \A p \in SeqSet(s) :
        \/ TimeOf(p) < TimeOf(o)
        \/ TimeOf(p) = TimeOf(o) /\ RowIndex(p) <= RowIndex(o)

\* C3: a grouped record's date is the maximum date among its subOrders and
\* its customerName the name of the order merged last, orders being
\* processed in ascending date order and, for equal dates, in row order.
C3_LastOrderWins ==
    \A i \in DOMAIN groupedOrders :
        LET g == groupedOrders[i]
        IN  /\ \A p \in SeqSet(g.subOrders) : TimeOf(p) <= TimeOf(g)
            /\ \E o \in SeqSet(g.subOrders) :
                  /\ ProcessedLast(o, g.subOrders)
                  /\ g.date = o.date
                  /\ g.customerName = o.customerName

\* a record whose first two sub-orders share a date and differ in name and
\* whose last sub-order is an earlier row than the first
C3_Witness ==
    \E i \in DOMAIN groupedOrders :
        LET g == groupedOrders[i]
        IN  /\ Len(g.subOrders) = 3
            /\ g.subOrders[1].date = g.subOrders[2].date
            /\ g.subOrders[1].customerName # g.subOrders[2].customerName
            /\ g.customerName # g.subOrders[1].customerName
            /\ RowIndex(g.subOrders[3]) < RowIndex(g.subOrders[1])

\* a < b as numbers (false when either is NaN)
Less(a, b) == ~a.nan /\ ~b.nan /\ a.v < b.v

\* C4: the top-customers list is the first 5 records of the grouped output:
\* at most 5 long, totalRevenue never increasing along it, and no grouped
\* record outside it with a larger amount than a record inside it.
C4_TopCustomers ==
    /\ Len(topCustomers) <= 5
    /\ Len(topCustomers) = IF Len(groupedOrders) < 5 THEN Len(groupedOrders) ELSE 5
    /\ \A i \in DOMAIN topCustomers :
          /\ topCustomers[i].totalRevenue = groupedOrders[i].amount
          /\ topCustomers[i].name = groupedOrders[i].customerName
    /\ \A i, j \in DOMAIN topCustomers :
          i < j => ~Less(topCustomers[i].totalRevenue, topCustomers[j].totalRevenue)
    /\ \A i \in DOMAIN topCustomers :
          \A j \in DOMAIN groupedOrders :
              j > Len(topCustomers)
                  => ~Less(topCustomers[i].totalRevenue, groupedOrders[j].amount)

\* the local calendar day of an order
LocalDayOf(o) == (TimeOf(o) + tz) \div TicksPerDay

\* C5: with both bounds given the filter returns exactly the orders whose
\* date lies on a calendar day from start to end, both inclusive, whatever
\* the time-zone offset.
C5_FilterByCalendarDay ==
    (startDate # NoDate /\ endDate # NoDate) =>
        filteredOrders = SelectSeq(orders, LAMBDA o :
                             startDate[1] <= LocalDayOf(o) /\ LocalDayOf(o) <= endDate[1])

\* the last tick of calendar day d, the first tick of calendar day d, as
\* the filter computes them
EndOfDay(d) == setHoursEnd(DayTextTime(d), tz)

StartOfDay(d) == setHoursStart(DayTextTime(d), tz)

\* C6: with one bound missing the filter is unbounded on that side: end
\* alone returns every order at or before the end of the end day, however
\* early; start alone returns every order at or after the start of the
\* start day.
C6_MissingBoundUnbounded ==
    /\ (startDate = NoDate /\ endDate # NoDate) =>
          filteredOrders = SelectSeq(orders, LAMBDA o : TimeOf(o) <= EndOfDay(endDate))
    /\ (startDate # NoDate /\ endDate = NoDate) =>
          filteredOrders = SelectSeq(orders, LAMBDA o : TimeOf(o) >= StartOfDay(startDate))

\* the calendar day of an order's ISO date
DayOf(o) == o.date.day

OrdersOfDay(s, d) == SelectSeq(s, LAMBDA o : DayOf(o) = d)

\* C7: the daily stats hold exactly one bucket per calendar day occurring
\* among the individual orders of the filtered set, each with the sum of
\* quantity as orderCount and the sum of amount as revenue, in ascending
\* order of date.
C7_DailyStats ==
    /\ {dailyStats[i].date : i \in DOMAIN dailyStats}
          = {DayOf(filteredOrders[k]) : k \in DOMAIN filteredOrders}
    /\ \A i, j \in DOMAIN dailyStats : i < j => dailyStats[i].date < dailyStats[j].date
    /\ \A i \in DOMAIN dailyStats :
          /\ dailyStats[i].orderCount
                = SumQuantities(OrdersOfDay(filteredOrders, dailyStats[i].date))
          /\ dailyStats[i].revenue
                = SumAmounts(OrdersOfDay(filteredOrders, dailyStats[i].date))

\* two buckets, the filtered orders not in date order, a day of two orders
\* of which one counts more than one piece
C7_Witness ==
    /\ Len(dailyStats) = 2
    /\ Len(filteredOrders) = 3
    /\ TimeOf(filteredOrders[1]) > TimeOf(filteredOrders[3])
    /\ \E i \in DOMAIN dailyStats : dailyStats[i].orderCount >= 3
    /\ \A i \in DOMAIN dailyStats : ~dailyStats[i].revenue.nan

RECURSIVE SumRevenue(_)
SumRevenue(stats) ==
    IF stats = <<>> THEN Whole(0)
    ELSE LET rest == SumRevenue(Tail(stats))
             r    == Head(stats).revenue
         IN  IF rest.nan \/ r.nan THEN NaN ELSE Num(rest.v + r.v)

RECURSIVE SumOrderCount(_)
SumOrderCount(stats) ==
    IF stats = <<>> THEN 0 ELSE Head(stats).orderCount + SumOrderCount(Tail(stats))

\* the quotient q is num / den
IsQuotient(q, num, den) ==
    /\ q.den # 0
    /\ q.num.nan = num.nan
    /\ q.num.v * den = num.v * q.den

\* the quotient q is 0
IsZero(q) == q.den # 0 /\ ~q.num.nan /\ q.num.v = 0

\* C8: totalRevenue is the sum of revenue and totalOrders the sum of
\* orderCount over the daily stats; averageOrderValue is their quotient
\* when totalOrders > 0 and 0 otherwise, so 0 for an empty filtered set.
C8_Totals ==
    /\ totalRevenue = SumRevenue(dailyStats)
    /\ totalOrders = SumOrderCount(dailyStats)
    /\ totalOrders > 0 => IsQuotient(averageOrderValue, totalRevenue, totalOrders)
    /\ ~(totalOrders > 0) => IsZero(averageOrderValue)
    /\ filteredOrders = <<>> => IsZero(averageOrderValue)

\* two buckets whose revenues add up to a total that the count of pieces
\* does not divide
C8_Witness ==
    /\ Len(dailyStats) = 2
    /\ ~totalRevenue.nan
    /\ totalOrders > 1
    /\ totalRevenue.v % totalOrders # 0
    /\ averageOrderValue.den = totalOrders

\* a state with a dataset and an empty filtered set
C8_WitnessEmpty == orders # <<>> /\ filteredOrders = <<>>

\* C9: the dataset is always the whole result of one source: the initial
\* empty set, one fetch, or one mock generation.
C9_WholeDataset ==
    /\ orders = source.data
    /\ source.kind = "initial" => orders = <<>>
    /\ source.kind = "fetch" => \A i \in DOMAIN orders : orders[i].id = <<"row", i - 1>>
    /\ source.kind = "mock" => \A i \in DOMAIN orders : orders[i].id[1] = "mock"

\* a fetched dataset of two rows that replaced a mock dataset, with another
\* fetch in flight
C9_Witness ==
    /\ Len(orders) = 2
    /\ source.kind = "fetch"
    /\ inflight # {}
    /\ lastDone.kind = "resolved"
    /\ lastDone.before # <<>>
    /\ lastDone.before[1].id[1] = "mock"

C10_WitnessEmpty ==
    /\ lastDone.kind = "resolved"
    /\ lastDone.data = <<>>
    /\ orders # <<>>

\* C11: overlapping fetches are not guarded: a loadData call that started
\* before the call whose result is held and completes after it with at
\* least one row makes the dataset its own, older, result.
C11_OlderFetchOverwrites ==
    (lastDone.kind = "resolved" /\ lastDone.data # <<>> /\ lastDone.by < lastDone.over) =>
        /\ orders = lastDone.data
        /\ source.kind = "fetch"
        /\ source.id = lastDone.by

\* fetch A started before fetch B, B's result was held, then A completed and
\* its different result replaced B's
C11_Witness ==
    /\ lastDone.kind = "resolved"
    /\ lastDone.by < lastDone.over
    /\ lastDone.before # <<>>
    /\ lastDone.data # <<>>
    /\ lastDone.before # lastDone.data
    /\ orders = lastDone.data
    /\ source.id = lastDone.by

\* C12: right after a fetch ended in failure the user sees the error
\* message and the two recovery actions (the error screen), also when a
\* dataset of an earlier load is held.
C12_FailureSurfaced ==
    (mounted = "yes" /\ lastDone.kind = "rejected") => (ErrorScreen /\ errorMsg # "")

\* a loadData call leaves the set of suspended calls only by completing
Completed(f) == lastDone'.kind \in {"resolved", "rejected"} /\ lastDone'.by = f

\* C13: after the cleanup the timer is stopped and no loadData call is ever
\* started; the cleanup cancels no suspended call, every suspended call can
\* still complete, and (its promise settling) does complete.
C13_ShutdownStopsTimerOnly ==
    /\ [](mounted = "gone" => (~timerOn /\ ~ENABLED TimerFire /\ lastDone.kind # "start"))
    /\ [](mounted = "gone" =>
            \A f \in inflight :
                ENABLED (\E data \in FetchResults : LoadResolved(f, data)))
    /\ [][ /\ mounted' = "gone" => nextFetch' = nextFetch
           /\ lastDone'.kind = "cleanup" => inflight' = inflight
           /\ \A f \in inflight : f \in inflight' \/ Completed(f) ]_vars
    /\ \A f \in 1..MaxFetches :
          (mounted = "gone" /\ f \in inflight) ~> (f \notin inflight)

\* after the cleanup a call that was suspended at it completed and wrote the
\* dataset, and the bound on calls would still have let the timer start one
C13_Witness ==
    /\ mounted = "gone"
    /\ lastDone.kind = "resolved"
    /\ orders = lastDone.data
    /\ lastDone.before # lastDone.data
    /\ nextFetch <= MaxFetches

\* C17: isUsingMock is true exactly when the dataset held was produced by
\* the mock generator.
C17_MockFlagMatchesDataset ==
    isUsingMock <=> source.kind = "mock"

\* C18: loadingState = ERROR implies a non-empty errorMsg.
C18_ErrorHasMessage ==
    loadingState = "ERROR" => errorMsg # ""

\* the text holds a decimal digit
HasDigit(text) == \E i \in DOMAIN text : text[i] \in Digits

\* C14: the record builder makes exactly one Order of every data row, with
\* an amount that is a number >= 0 (0 when the amount text is empty or holds
\* no digit), a quantity that is an integer >= 1 (1 when the quantity text
\* is empty or holds no digit) and a date that is a valid instant.
C14_RecordBuilderTotal ==
    /\ Len(sheet.lines) >= 2 => Len(sheet.data) = Len(sheet.lines) - 1
    /\ \A n \in DOMAIN sheet.data :
          LET order == sheet.data[n]
              cells == sheet.cells[n]
          IN  /\ ~order.amount.nan
              /\ order.amount.v >= 0
              /\ ~HasDigit(cells.amount) => order.amount = Whole(0)
              /\ order.quantity \in Nat
              /\ order.quantity >= 1
              /\ ~HasDigit(cells.quantity) => order.quantity = 1
              /\ order.date.day \in Int
              /\ order.date.tod \in 0..(TicksPerDay - 1)

\* the columns whose lower-cased header contains a keyword of the field
MatchingColumns(headers, field) ==
    {i \in DOMAIN headers :
        \E n \in DOMAIN Keywords(field) : includesText(headers[i], Keywords(field)[n])}

\* the raw value of column i of a data line, '' past its end
RawValue(values, i) == IF i \in DOMAIN values THEN values[i] ELSE <<>>

\* C15: for every data row and every canonical field the column mapper
\* returns the row's raw value of the leftmost column whose lower-cased
\* header contains a keyword of the field, and the empty text when no header
\* matches -- also when two columns have the same header text.
C15_LeftmostColumnWins ==
    \A n \in DOMAIN sheet.cells : \A field \in Fields :
        LET hits == MatchingColumns(sheet.headers, field)
        IN  sheet.cells[n][field] =
                IF hits = {} THEN <<>>
                ELSE RawValue(sheet.fields[n + 1],
                              CHOOSE i \in hits : \A j \in hits : i <= j)

\* the delimiters of a line that have an even number of quotes before them
OutsideDelimiters(line) ==
    {p \in DOMAIN line :
        /\ line[p] = ","
        /\ Cardinality({j \in 1..(p - 1) : line[j] = Quote}) % 2 = 0}

\* the position of the n-th delimiter outside quotes, 0 for n = 0 and one
\* past the end of the line when there are fewer
Cut(line, n) ==
    LET cuts == OutsideDelimiters(line)
    IN  IF n = 0 THEN 0
        ELSE IF n > Cardinality(cuts) THEN Len(line) + 1
        ELSE CHOOSE p \in cuts : Cardinality({q \in cuts : q < p}) = n - 1

\* the text between the (n-1)-th and the n-th delimiter outside quotes
Segment(line, n) == SubSeq(line, Cut(line, n - 1) + 1, Cut(line, n) - 1)

Count(text, c) == Cardinality({i \in DOMAIN text : text[i] = c})

\* C16: the splitter returns 1 + (number of delimiters outside quotes)
\* fields; a delimiter inside quotes stays in its field's text; every field
\* is the text between two such delimiters without the quotes, trimmed.
C16_SplitterHonoursQuotes ==
    \A i \in DOMAIN sheet.fields :
        LET line   == sheet.lines[i]
            fields == sheet.fields[i]
        IN  /\ Len(fields) = 1 + Cardinality(OutsideDelimiters(line))
            /\ \A n \in DOMAIN fields :
                  /\ Count(fields[n], ",") = Count(Segment(line, n), ",")
                  /\ Count(fields[n], Quote) = 0
                  /\ fields[n] = trim(fields[n])
                  /\ fields[n] = trim(SelectSeq(Segment(line, n), LAMBDA c : c # Quote))

\* a line with a delimiter inside a quoted field, kept in the field's text,
\* and a field that lost the blanks around it
C16_Witness ==
    \E i \in DOMAIN sheet.fields :
        /\ Cardinality(OutsideDelimiters(sheet.lines[i])) < Count(sheet.lines[i], ",")
        /\ \E n \in DOMAIN sheet.fields[i] :
              /\ Count(sheet.fields[i][n], ",") = 1
              /\ Count(Segment(sheet.lines[i], n), Quote) = 2
        /\ \E n \in DOMAIN sheet.fields[i] :
              Len(sheet.fields[i][n]) < Len(Segment(sheet.lines[i], n))
              /\ Count(Segment(sheet.lines[i], n), Quote) = 0

\* C19: with start = end = day d every daily-stat bucket the filtered
\* orders are accumulated in has the date key d, whatever the time-zone
\* offset and the date text (one- or two-digit day and month) of the order.
C19_FilterDayIsStatDay ==
    (startDate # NoDate /\ startDate = endDate) =>
        \A i \in DOMAIN dailyStats : dailyStats[i].date = startDate[1]

=============================================================================
